---- MODULE Spec2Model ----
(***************************************************************************)
(* Datastar wire-protocol layer of datastar-bun-hono-example.              *)
(*                                                                         *)
(* Two encoders live in the repository:                                    *)
(*   - HonoDatastarSSE (src/src/hono-sse.ts): builds the SSE text itself   *)
(*     in sendEvent and enqueues it on a ReadableStream controller;        *)
(*   - DatastarStreamingApi (serverSentEventGenerator.ts, kept as          *)
(*     src/unnamed/part_000): builds an SSEMessage {id, retry, event,      *)
(*     data} and hands it to hono's stream.writeSSE.                       *)
(* and two inbound readers (readSignals of either file).                   *)
(*                                                                         *)
(* Text is a sequence of atoms; an atom is a piece of text without a line  *)
(* break, and the line break itself is the atom "\n".  An optional value   *)
(* (a field that may be undefined) is a sequence of length 0 or 1.         *)
(***************************************************************************)
EXTENDS Integers, Sequences, FiniteSets, TLC

VARIABLES call, issued, sink, sse, result, reads, parsed, raised,
          pc, cb, stream, hooks, log, cancelled,
          lastShapeIndex, route, picks

readVars == <<result, reads, parsed, raised>>

lifeVars == <<pc, cb, stream, hooks, log, cancelled>>

routeVars == <<lastShapeIndex, route, picks>>

vars == <<call, issued, sink, sse, readVars, lifeVars, routeVars>>

\* ------------------------------------------------------------------------
\* Bounds
\* ------------------------------------------------------------------------

\* How many times the caller issues the operation on one stream.
MaxIssues == 2

\* ------------------------------------------------------------------------
\* Optional values and text helpers
\* ------------------------------------------------------------------------

None == <<>>

Some(x) == <<x>>

IsSome(o) == o # <<>>

Get(o) == o[1]

NL == "\n"

SP == " "

\* String.prototype.split("\n")
\* The pieces between consecutive line breaks; n line breaks give n + 1
\* pieces, empty ones included.
Split(s) ==
  LET n == Len(s)
      breaks == <<0>> \o SelectSeq([i \in 1..n |-> i], LAMBDA i : s[i] = NL)
                  \o <<n + 1>>
  IN [k \in 1..(Len(breaks) - 1) |->
        SubSeq(s, breaks[k] + 1, breaks[k + 1] - 1)]

\* Array.prototype.join(sep)
RECURSIVE Join(_, _)
Join(parts, sep) ==
  IF parts = <<>> THEN <<>>
  ELSE IF Len(parts) = 1 THEN parts[1]
  ELSE parts[1] \o sep \o Join(Tail(parts), sep)

\* `${b}` for a boolean
BoolStr(b) == IF b THEN "true" ELSE "false"

\* JSON.stringify of a string value: quotes, with quote, backslash and line
\* break escaped.
RECURSIVE JSONEscape(_)
JSONEscape(s) ==
  IF s = <<>> THEN <<>>
  ELSE (IF Head(s) = NL THEN <<"\\", "n">>
        ELSE IF Head(s) = "\"" THEN <<"\\", "\"">>
        ELSE IF Head(s) = "\\" THEN <<"\\", "\\">>
        ELSE <<Head(s)>>) \o JSONEscape(Tail(s))

\* JSON.stringify of an object given as its entries <<key, string value>> in
\* insertion order (no indent argument: no line breaks are produced).
JSONStringify(obj) ==
  <<"{">> \o
  Join([i \in DOMAIN obj |->
          <<"\"", obj[i][1], "\"", ":", "\"">> \o JSONEscape(obj[i][2]) \o <<"\"">>],
       <<",">>) \o
  <<"}">>

\* ------------------------------------------------------------------------
\* HonoDatastarSSE (src/src/hono-sse.ts)
\* ------------------------------------------------------------------------

DEFAULT_RETRY_DURATION == 1000

MERGE_SIGNALS == "datastar-merge-signals"

MERGE_FRAGMENTS == "datastar-merge-fragments"

REMOVE_FRAGMENTS == "datastar-remove-fragments"

REMOVE_SIGNALS == "datastar-remove-signals"

EXECUTE_SCRIPT == "datastar-execute-script"

\* The text sendEvent enqueues (UTF-8 encoded) on the controller.
\* `if (eventId)` and `if (retryDuration && ...)` are truthiness tests: the
\* empty string and 0 fail them.
sendEvent(eventType, dataLines, options) ==
  LET eventId == options.eventId
      retryDuration == options.retryDuration
      p1 == << <<"event:", SP, eventType>> >>
      p2 == IF IsSome(eventId) /\ Get(eventId) # <<>>
            THEN Append(p1, <<"id:", SP>> \o Get(eventId)) ELSE p1
      p3 == IF IsSome(retryDuration) /\ Get(retryDuration) # 0
               /\ Get(retryDuration) # DEFAULT_RETRY_DURATION
            THEN Append(p2, <<"retry:", SP, ToString(Get(retryDuration))>>)
            ELSE p2
      p4 == p3 \o [i \in DOMAIN dataLines |-> <<"data:", SP>> \o dataLines[i]]
      messageParts == p4 \o << <<>>, <<>> >>
  IN Join(messageParts, <<NL>>)

Hono_mergeSignalsLines(a) ==
  LET d1 == << <<"signals", SP>> \o JSONStringify(a.signals) >>
  IN IF IsSome(a.onlyIfMissing) /\ Get(a.onlyIfMissing)
     THEN Append(d1, <<"onlyIfMissing", SP, BoolStr(Get(a.onlyIfMissing))>>)
     ELSE d1

Hono_mergeSignals(a) == sendEvent(MERGE_SIGNALS, Hono_mergeSignalsLines(a), a)

Hono_mergeFragmentsLines(a) ==
  LET d1 == << <<"fragments", SP>> \o a.fragments >>
      d2 == IF IsSome(a.selector) /\ Get(a.selector) # <<>>
            THEN Append(d1, <<"selector", SP>> \o Get(a.selector)) ELSE d1
      d3 == IF IsSome(a.mergeMode) /\ Get(a.mergeMode) # "morph"
            THEN Append(d2, <<"mergeMode", SP, Get(a.mergeMode)>>) ELSE d2
  IN IF IsSome(a.useViewTransition) /\ Get(a.useViewTransition)
     THEN Append(d3, <<"useViewTransition", SP,
                       BoolStr(Get(a.useViewTransition))>>)
     ELSE d3

Hono_mergeFragments(a) ==
  sendEvent(MERGE_FRAGMENTS, Hono_mergeFragmentsLines(a), a)

Hono_removeFragmentsLines(a) == << <<"selector", SP>> \o a.selector >>

Hono_removeFragments(a) ==
  sendEvent(REMOVE_FRAGMENTS, Hono_removeFragmentsLines(a), a)

Hono_removeSignalsLines(a) ==
  [i \in DOMAIN a.paths |-> <<"paths", SP>> \o a.paths[i]]

Hono_removeSignals(a) ==
  sendEvent(REMOVE_SIGNALS, Hono_removeSignalsLines(a), a)

\* attributes: undefined, a string[] ([kind |-> "list"]) or a Record
\* ([kind |-> "map"], entries <<key, value>> in insertion order).
Hono_executeScriptLines(a) ==
  LET d1 == << <<"script", SP>> \o a.script >>
      at == IF IsSome(a.attributes) THEN Get(a.attributes).items ELSE <<>>
      d2 == IF ~IsSome(a.attributes) THEN d1
            ELSE IF Get(a.attributes).kind = "list"
            THEN d1 \o [i \in DOMAIN at |-> <<"attributes", SP>> \o at[i]]
            ELSE d1 \o [i \in DOMAIN at |->
                          <<"attributes", SP>> \o at[i][1] \o <<SP>> \o at[i][2]]
  IN IF IsSome(a.autoRemove)
     THEN Append(d2, <<"autoRemove", SP, BoolStr(Get(a.autoRemove))>>)
     ELSE d2

Hono_executeScript(a) ==
  sendEvent(EXECUTE_SCRIPT, Hono_executeScriptLines(a), a)

\* ------------------------------------------------------------------------
\* DatastarStreamingApi (serverSentEventGenerator.ts, src/unnamed/part_000)
\* ------------------------------------------------------------------------

EVENT_PATCH_SIGNALS == "datastar-patch-signals"

EVENT_PATCH_ELEMENTS == "datastar-patch-elements"

\* Variant: only the first line gets the prefix (no split).
prefixDataLines_noSplit(prefix, data) == << <<prefix, SP>> \o data >>

prefixDataLines(prefix, data) ==
  LET ls == Split(data) IN [i \in DOMAIN ls |-> <<prefix, SP>> \o ls[i]]

joinDataLines(dataLines) == Join(dataLines, <<NL>>)

\* Variant: the onlyIfMissing line is written whenever the option is defined.
patchSignals_whenDefined(a) ==
  LET signalsString == JSONStringify(a.signals)
      d1 == IF IsSome(a.onlyIfMissing)
            THEN << <<"onlyIfMissing", SP, "true">> >> ELSE <<>>
      dataLines == d1 \o prefixDataLines("signals", signalsString)
  IN [id |-> a.eventId, retry |-> a.retryDuration,
      event |-> "datastar-patch-signals", data |-> joinDataLines(dataLines)]

\* The SSEMessage handed to send(), i.e. to stream.writeSSE.
patchSignals(a) ==
  LET signalsString == JSONStringify(a.signals)
      d1 == IF a.onlyIfMissing = Some(TRUE)
            THEN << <<"onlyIfMissing", SP, "true">> >> ELSE <<>>
      dataLines == d1 \o prefixDataLines("signals", signalsString)
  IN [id |-> a.eventId, retry |-> a.retryDuration,
      event |-> EVENT_PATCH_SIGNALS, data |-> joinDataLines(dataLines)]

patchElements(a) ==
  LET elementsString == a.elements
      d1 == IF IsSome(a.mode) /\ Get(a.mode) # "outer"
            THEN << <<"mode", SP, Get(a.mode)>> >> ELSE <<>>
      d2 == IF IsSome(a.selector) /\ Get(a.selector) # <<>>
            THEN Append(d1, <<"selector", SP>> \o Get(a.selector)) ELSE d1
      d3 == IF a.useViewTransition = Some(TRUE)
            THEN Append(d2, <<"useViewTransition", SP, "true">>) ELSE d2
      dataLines == d3 \o prefixDataLines("elements", elementsString)
  IN [id |-> a.eventId, retry |-> a.retryDuration,
      event |-> EVENT_PATCH_ELEMENTS, data |-> joinDataLines(dataLines)]

DATA_EFFECT == <<"data-effect=", "\"", "el.remove()", "\"">>

\* Variant: autoRemove defaults to false.
executeScriptAttributes_defaultOff(a) ==
  LET attributes == IF IsSome(a.attributes) THEN Get(a.attributes) ELSE <<>>
      shouldAutoRemove == IF IsSome(a.autoRemove) THEN Get(a.autoRemove)
                          ELSE FALSE
  IN IF shouldAutoRemove THEN Append(attributes, DATA_EFFECT) ELSE attributes

\* The local `attributes` after the optional push.  When options.attributes
\* is supplied the local IS the caller's array (options?.attributes ?? []),
\* so the push is visible to the caller.
executeScriptAttributes(a) ==
  LET attributes == IF IsSome(a.attributes) THEN Get(a.attributes) ELSE <<>>
      shouldAutoRemove == IF IsSome(a.autoRemove) THEN Get(a.autoRemove)
                          ELSE TRUE
  IN IF shouldAutoRemove THEN Append(attributes, DATA_EFFECT) ELSE attributes

executeScriptElement(a) ==
  LET attributes == executeScriptAttributes(a)
      attributesString == IF Len(attributes) > 0
                          THEN <<SP>> \o Join(attributes, <<SP>>) ELSE <<>>
  IN <<"<script">> \o attributesString \o <<">">> \o a.script
       \o <<"</script>">>

executeScript(a) ==
  patchElements([elements |-> executeScriptElement(a),
                 mode |-> Some("append"),
                 selector |-> Some(<<"body">>),
                 eventId |-> a.eventId,
                 retryDuration |-> a.retryDuration,
                 useViewTransition |-> None])

\* ------------------------------------------------------------------------
\* Inbound signal readers
\* ------------------------------------------------------------------------

\* A payload text is known by its length and by what JSON.parse makes of it.
MAX_JSON_SIZE == 1024 * 1024

Text(len, parse) == [len |-> len, parse |-> parse]

EmptyText == Text(0, "malformed")

\* JSON.parse: throws a SyntaxError on malformed text (the empty text
\* included), otherwise returns the value.
JSONParse(t) ==
  IF t.parse = "malformed" THEN [threw |-> TRUE]
  ELSE [threw |-> FALSE, value |-> [kind |-> t.parse, len |-> t.len]]

NO_DATASTAR_OBJECT == "No datastar object in request"

READ_SIGNALS_SIZE_ERROR ==
  [success |-> FALSE, error |-> "Request payload too large"]

READ_SIGNALS_PARSE_ERROR ==
  [success |-> FALSE, error |-> "Unknown error while parsing request"]

\* The readers below return the response together with what the call did:
\* [response, parsed] from the helpers (parsed: JSON.parse was invoked on the
\* text), [result, reads, parsed, raised] from readSignals (reads, parsed:
\* the request parts touched and handed to the parser; raised: the call
\* threw instead of returning, and result is then meaningless).

\* Variant: a missing parameter is reported with the generic parse error.
readSignalsFromQuery_genericError(req) ==
  LET queryString == req.query IN
  IF ~IsSome(queryString) \/ Get(queryString).len = 0
  THEN [response |-> READ_SIGNALS_PARSE_ERROR, parsed |-> FALSE]
  ELSE IF Get(queryString).len > MAX_JSON_SIZE
  THEN [response |-> READ_SIGNALS_SIZE_ERROR, parsed |-> FALSE]
  ELSE LET r == JSONParse(Get(queryString)) IN
       [response |-> IF r.threw THEN READ_SIGNALS_PARSE_ERROR
                     ELSE [success |-> TRUE, signals |-> r.value],
        parsed |-> TRUE]

\* req.query('datastar') is undefined for a missing parameter; `!queryString`
\* is also true of the empty string.
readSignalsFromQuery(req) ==
  LET queryString == req.query IN
  IF ~IsSome(queryString) \/ Get(queryString).len = 0
  THEN [response |-> [success |-> FALSE, error |-> NO_DATASTAR_OBJECT],
        parsed |-> FALSE]
  ELSE IF Get(queryString).len > MAX_JSON_SIZE
  THEN [response |-> READ_SIGNALS_SIZE_ERROR, parsed |-> FALSE]
  ELSE LET r == JSONParse(Get(queryString)) IN
       [response |-> IF r.threw THEN READ_SIGNALS_PARSE_ERROR
                     ELSE [success |-> TRUE, signals |-> r.value],
        parsed |-> TRUE]

\* req.json() rejects when the body cannot be read or is not JSON.
readSignalsFromBody(req) ==
  IF ~req.body.readable
  THEN [response |-> READ_SIGNALS_PARSE_ERROR, parsed |-> FALSE]
  ELSE LET r == JSONParse(req.body.text) IN
       [response |-> IF r.threw THEN READ_SIGNALS_PARSE_ERROR
                     ELSE [success |-> TRUE, signals |-> r.value],
        parsed |-> TRUE]

ViaQuery(r) ==
  [result |-> r.response, reads |-> {"query"},
   parsed |-> IF r.parsed THEN {"query"} ELSE {}, raised |-> FALSE]

ViaBody(r) ==
  [result |-> r.response, reads |-> {"body"},
   parsed |-> IF r.parsed THEN {"body"} ELSE {}, raised |-> FALSE]

\* Variant: the query parameter wins whenever it is present.
readSignals_queryIfPresent(req) ==
  IF req.method = "GET" \/ IsSome(req.query)
  THEN ViaQuery(readSignalsFromQuery(req))
  ELSE ViaBody(readSignalsFromBody(req))

readSignals(req) ==
  IF req.method = "GET"
  THEN ViaQuery(readSignalsFromQuery(req))
  ELSE ViaBody(readSignalsFromBody(req))

\* The second copy of serverSentEventGenerator.ts: the parameter goes to
\* JSON.parse whatever its length.
readSignalsFromQuery2(req) ==
  LET queryString == req.query IN
  IF ~IsSome(queryString) \/ Get(queryString).len = 0
  THEN [response |-> [success |-> FALSE, error |-> NO_DATASTAR_OBJECT],
        parsed |-> FALSE]
  ELSE LET r == JSONParse(Get(queryString)) IN
       [response |-> IF r.threw THEN READ_SIGNALS_PARSE_ERROR
                     ELSE [success |-> TRUE, signals |-> r.value],
        parsed |-> TRUE]

readSignals2(req) ==
  IF req.method = "GET"
  THEN ViaQuery(readSignalsFromQuery2(req))
  ELSE ViaBody(readSignalsFromBody(req))

\* Messages of errors raised by the runtime, not by this code.
SYNTAX_ERROR_MESSAGE == "JSON Parse error"

BODY_ERROR_MESSAGE == "body could not be read"

\* hono-sse.ts: the helpers throw; [threw, message] or [threw, value], and
\* whether JSON.parse was invoked.
parseSignalsFromParams(params) ==
  IF ~IsSome(params)
  THEN [threw |-> TRUE, message |-> NO_DATASTAR_OBJECT, parsed |-> FALSE]
  ELSE IF Get(params).len = 0
  THEN [threw |-> TRUE, message |-> "Datastar param is null",
        parsed |-> FALSE]
  ELSE LET r == JSONParse(Get(params)) IN
       IF r.threw
       THEN [threw |-> TRUE, message |-> SYNTAX_ERROR_MESSAGE,
             parsed |-> TRUE]
       ELSE IF r.value.kind \notin {"object", "array"}
       THEN [threw |-> TRUE, message |-> "Datastar param is not a record",
             parsed |-> TRUE]
       ELSE [threw |-> FALSE, value |-> r.value, parsed |-> TRUE]

parseSignalsFromBody(body) ==
  IF ~body.readable
  THEN [threw |-> TRUE, message |-> BODY_ERROR_MESSAGE, parsed |-> FALSE]
  ELSE LET r == JSONParse(body.text) IN
       IF r.threw
       THEN [threw |-> TRUE, message |-> SYNTAX_ERROR_MESSAGE,
             parsed |-> TRUE]
       ELSE [threw |-> FALSE, value |-> r.value, parsed |-> TRUE]

\* The catch around the whole body turns every throw into a result.
Hono_readSignals(req) ==
  LET viaQuery == req.method = "GET"
      r == IF viaQuery THEN parseSignalsFromParams(req.query)
           ELSE parseSignalsFromBody(req.body)
      part == IF viaQuery THEN {"query"} ELSE {"body"}
  IN [result |-> IF r.threw THEN [success |-> FALSE, error |-> r.message]
                 ELSE [success |-> TRUE, signals |-> r.value],
      reads |-> part,
      parsed |-> IF r.parsed THEN part ELSE {},
      raised |-> FALSE]

\* The earlier hono-sse.ts: readSignals does the work inline. The GET branch
\* sits in a try; `await c.req.text()` of the other branch sits outside any
\* try, so a body that cannot be read rejects the promise readSignals
\* returned.
Inline_readSignals(req) ==
  IF req.method = "GET"
  THEN LET params == req.query IN
       IF ~IsSome(params)
       THEN [result |-> [success |-> FALSE, error |-> NO_DATASTAR_OBJECT],
             reads |-> {"query"}, parsed |-> {}, raised |-> FALSE]
       ELSE IF Get(params).len = 0
       THEN [result |-> [success |-> FALSE,
                         error |-> "Datastar param is null"],
             reads |-> {"query"}, parsed |-> {}, raised |-> FALSE]
       ELSE LET r == JSONParse(Get(params)) IN
            [result |->
               IF r.threw
               THEN [success |-> FALSE, error |-> SYNTAX_ERROR_MESSAGE]
               ELSE IF r.value.kind \notin {"object", "array"}
               THEN [success |-> FALSE,
                     error |-> "Datastar param is not a record"]
               ELSE [success |-> TRUE, signals |-> r.value],
             reads |-> {"query"}, parsed |-> {"query"}, raised |-> FALSE]
  ELSE IF ~req.body.readable
  THEN [result |-> [success |-> FALSE, error |-> BODY_ERROR_MESSAGE],
        reads |-> {"body"}, parsed |-> {}, raised |-> TRUE]
  ELSE LET r == JSONParse(req.body.text) IN
       [result |-> IF r.threw
                   THEN [success |-> FALSE, error |-> SYNTAX_ERROR_MESSAGE]
                   ELSE [success |-> TRUE, signals |-> r.value],
        reads |-> {"body"}, parsed |-> {"body"}, raised |-> FALSE]

\* ------------------------------------------------------------------------
\* Inputs
\* ------------------------------------------------------------------------

\* eventId: undefined, "", "e1"
EventIds == {None, Some(<<>>), Some(<<"e1">>)}

\* retryDuration: undefined, 0, the default, another value
RetryDurations == {None, Some(0), Some(1000), Some(2000)}

OptBools == {None, Some(TRUE), Some(FALSE)}

\* {}, {"shape":"heart"}, and a value holding a quote and a line break
SignalObjects ==
  { <<>>,
    << <<"shape", <<"heart">> >> >>,
    << <<"shape", <<"a", "\"", NL, "b">> >>, <<"n", <<>> >> >> }

\* markup: one line, two lines, an empty line inside, empty
Contents ==
  { <<"<div>x</div>">>, <<"a", NL, "b">>, <<"a", NL, NL, "b">>, <<>> }

Selectors == {None, Some(<<>>), Some(<<"body">>)}

ElementPatchModes == {None, Some("outer"), Some("append"), Some("inner")}

MergeModes == {None, Some("morph"), Some("append")}

PathLists == { <<>>, << <<"user.name">> >>, << <<"a">>, <<"b">> >> }

Scripts == { <<"console.log(1)">>, <<"f()", NL, "g()">> }

\* DatastarStreamingApi: attributes?: string[]
AttributeLists ==
  {None, Some(<<>>), Some(<< <<"async">> >>),
   Some(<< <<"type=", "\"", "module", "\"">>, <<"defer">> >>)}

\* HonoDatastarSSE: attributes?: Record<string, string> | string[]
HonoAttributes ==
  {None,
   Some([kind |-> "list", items |-> <<>>]),
   Some([kind |-> "list", items |-> << <<"async">>, <<"defer">> >>]),
   Some([kind |-> "map", items |-> << << <<"type">>, <<"module">> >> >>])}

Methods == {"GET", "POST", "HEAD"}

Texts ==
  {EmptyText, Text(17, "object"), Text(3, "array"), Text(1, "number"),
   Text(5, "malformed"), Text(MAX_JSON_SIZE, "object"),
   Text(MAX_JSON_SIZE + 1, "object"), Text(MAX_JSON_SIZE + 1, "malformed")}

\* the `datastar` query parameter: missing, or present with a text
Queries == {None} \cup {Some(t) : t \in Texts}

\* an absent body reads as the empty text
Bodies == {[readable |-> FALSE, text |-> EmptyText]}
            \cup {[readable |-> TRUE, text |-> t] : t \in Texts}

Requests == [method : Methods, query : Queries, body : Bodies]

Calls ==
  {[op |-> "mergeSignals", args |-> a] :
     a \in [signals : SignalObjects, onlyIfMissing : OptBools,
            eventId : EventIds, retryDuration : RetryDurations]}
  \cup
  {[op |-> "mergeFragments", args |-> a] :
     a \in [fragments : Contents, selector : Selectors, mergeMode : MergeModes,
            useViewTransition : OptBools,
            eventId : EventIds, retryDuration : RetryDurations]}
  \cup
  {[op |-> "removeFragments", args |-> a] :
     a \in [selector : {<<"#shape">>, <<>>},
            eventId : EventIds, retryDuration : RetryDurations]}
  \cup
  {[op |-> "removeSignals", args |-> a] :
     a \in [paths : PathLists,
            eventId : EventIds, retryDuration : RetryDurations]}
  \cup
  {[op |-> "honoExecuteScript", args |-> a] :
     a \in [script : Scripts, attributes : HonoAttributes,
            autoRemove : OptBools,
            eventId : EventIds, retryDuration : RetryDurations]}
  \cup
  {[op |-> "patchSignals", args |-> a] :
     a \in [signals : SignalObjects, onlyIfMissing : OptBools,
            eventId : EventIds, retryDuration : RetryDurations]}
  \cup
  {[op |-> "patchElements", args |-> a] :
     a \in [elements : Contents, mode : ElementPatchModes,
            selector : Selectors, useViewTransition : OptBools,
            eventId : EventIds, retryDuration : RetryDurations]}
  \cup
  {[op |-> "executeScript", args |-> a] :
     a \in [script : Scripts, attributes : AttributeLists,
            autoRemove : OptBools,
            eventId : EventIds, retryDuration : RetryDurations]}
  \cup
  {[op |-> "readSignals", args |-> r] : r \in Requests}
  \cup
  {[op |-> "honoReadSignals", args |-> r] : r \in Requests}
  \cup
  {[op |-> "readSignals2", args |-> r] : r \in Requests}
  \cup
  {[op |-> "inlineReadSignals", args |-> r] : r \in Requests}

\* ------------------------------------------------------------------------
\* State machine
\* ------------------------------------------------------------------------
\* call    the operation the handler invokes and the argument objects it
\*         holds (it may invoke it again with the same objects)
\* issued  the argument values as they were at each invocation
\* sink    texts enqueued on the ReadableStream controller (HonoDatastarSSE)
\* sse     SSEMessages handed to stream.writeSSE (DatastarStreamingApi)
\* result  the value readSignals returned, if it was called
\* reads   the parts of the request readSignals touched
\* parsed  the parts of the request readSignals handed to JSON.parse
\* raised  readSignals threw instead of returning
\* pc, cb, stream, hooks, log, cancelled
\*         the stream createDatastarStream made, if any (see Stream
\*         lifecycle)
\* lastShapeIndex, route, picks
\*         the /shape route and the requests it is serving (see The /shape
\*         route)

\* No createDatastarStream call was made.
NoStream ==
  /\ pc = "idle"
  /\ cb = "idle"
  /\ stream = [state |-> "readable", closeRequested |-> FALSE, queue |-> 0]
  /\ hooks = [onError |-> 0, onAbort |-> 0]
  /\ log = <<>>
  /\ cancelled = FALSE

\* No request reached the /shape route.
NoRoute ==
  /\ lastShapeIndex = -1
  /\ route = <<>>
  /\ picks = <<>>

Init ==
  /\ call \in Calls
  /\ issued = <<>>
  /\ sink = <<>>
  /\ sse = <<>>
  /\ result = None
  /\ reads = {}
  /\ parsed = {}
  /\ raised = FALSE
  /\ NoStream
  /\ NoRoute

CanIssue == Len(issued) < MaxIssues

Enqueue(op, text) ==
  /\ call.op = op
  /\ CanIssue
  /\ sink' = Append(sink, text)
  /\ issued' = Append(issued, call.args)
  /\ UNCHANGED <<call, sse, readVars, lifeVars, routeVars>>

WriteSSE(op, message) ==
  /\ call.op = op
  /\ CanIssue
  /\ sse' = Append(sse, message)
  /\ issued' = Append(issued, call.args)
  /\ UNCHANGED <<sink, readVars, lifeVars, routeVars>>

MergeSignals == Enqueue("mergeSignals", Hono_mergeSignals(call.args))

MergeFragments == Enqueue("mergeFragments", Hono_mergeFragments(call.args))

RemoveFragments == Enqueue("removeFragments", Hono_removeFragments(call.args))

RemoveSignals == Enqueue("removeSignals", Hono_removeSignals(call.args))

HonoExecuteScript ==
  Enqueue("honoExecuteScript", Hono_executeScript(call.args))

PatchSignals ==
  /\ WriteSSE("patchSignals", patchSignals(call.args))
  /\ UNCHANGED call

PatchElements ==
  /\ WriteSSE("patchElements", patchElements(call.args))
  /\ UNCHANGED call

\* Variant: a script event is sent ahead of the elements event.
ExecuteScript_twoFrames ==
  /\ call.op = "executeScript"
  /\ CanIssue
  /\ sse' = sse \o <<[executeScript(call.args) EXCEPT
                        !.event = "datastar-execute-script"],
                      executeScript(call.args)>>
  /\ issued' = Append(issued, call.args)
  /\ call' = IF IsSome(call.args.attributes)
             THEN [call EXCEPT !.args.attributes =
                                 Some(executeScriptAttributes(call.args))]
             ELSE call
  /\ UNCHANGED <<sink, readVars, lifeVars, routeVars>>

\* attributes.push(...) writes into the caller's array when one was passed.
ExecuteScript ==
  /\ WriteSSE("executeScript", executeScript(call.args))
  /\ call' = IF IsSome(call.args.attributes)
             THEN [call EXCEPT !.args.attributes =
                                 Some(executeScriptAttributes(call.args))]
             ELSE call

\* One call of a reader: what it returned (nothing when it threw) and what
\* it did on the way.
Read(op, r) ==
  /\ call.op = op
  /\ result = None
  /\ ~raised
  /\ result' = IF r.raised THEN None ELSE Some(r.result)
  /\ reads' = r.reads
  /\ parsed' = r.parsed
  /\ raised' = r.raised
  /\ UNCHANGED <<call, issued, sink, sse, lifeVars, routeVars>>

ReadSignals == Read("readSignals", readSignals(call.args))

ReadSignals2 == Read("readSignals2", readSignals2(call.args))

HonoReadSignals == Read("honoReadSignals", Hono_readSignals(call.args))

InlineReadSignals == Read("inlineReadSignals", Inline_readSignals(call.args))

Next ==
  \/ MergeSignals
  \/ MergeFragments
  \/ RemoveFragments
  \/ RemoveSignals
  \/ HonoExecuteScript
  \/ PatchSignals
  \/ PatchElements
  \/ ExecuteScript
  \/ ReadSignals
  \/ ReadSignals2
  \/ HonoReadSignals
  \/ InlineReadSignals

Spec == Init /\ [][Next]_vars

\* ------------------------------------------------------------------------
\* Reading frames back
\* ------------------------------------------------------------------------

\* The wire lines of an enqueued text: what lies between line breaks.  A text
\* ending in "\n\n" reads as <<..., <<>>, <<>>>>.
WireLines(text) == Split(text)

StartsWith(line, word) == Len(line) >= 1 /\ line[1] = word

IsDataLine(line) == Len(line) >= 2 /\ line[1] = "data:" /\ line[2] = SP

\* The payload of the `data: ` lines of a text, in order.
DataLinesOf(text) ==
  LET dl == SelectSeq(WireLines(text), IsDataLine)
  IN [k \in DOMAIN dl |-> SubSeq(dl[k], 3, Len(dl[k]))]

Blank == <<>>

EventTypeOf(op) ==
  CASE op = "mergeSignals" -> MERGE_SIGNALS
    [] op = "mergeFragments" -> MERGE_FRAGMENTS
    [] op = "removeFragments" -> REMOVE_FRAGMENTS
    [] op = "removeSignals" -> REMOVE_SIGNALS
    [] op = "honoExecuteScript" -> EXECUTE_SCRIPT

LinesOf(op, a) ==
  CASE op = "mergeSignals" -> Hono_mergeSignalsLines(a)
    [] op = "mergeFragments" -> Hono_mergeFragmentsLines(a)
    [] op = "removeFragments" -> Hono_removeFragmentsLines(a)
    [] op = "removeSignals" -> Hono_removeSignalsLines(a)
    [] op = "honoExecuteScript" -> Hono_executeScriptLines(a)

\* ------------------------------------------------------------------------
\* C1
\* ------------------------------------------------------------------------

\* C1: every text the encoder enqueues reads, line by line, as: the
\* `event: <type>` line, the `id: <id>` line iff an id was supplied (an id
\* counts as supplied when eventId is a non-empty string, the reading most
\* favourable to the code), optionally the `retry: <ms>` line, one
\* `data: <entry>` line per entry of dataLines in order, the terminating
\* blank line, and nothing else.
C1_FixedLineOrder ==
  \A i \in DOMAIN sink :
    LET a == issued[i]
        dl == LinesOf(call.op, a)
        eventPart == << <<"event:", SP, EventTypeOf(call.op)>> >>
        idPart == IF IsSome(a.eventId) /\ Get(a.eventId) # <<>>
                  THEN << <<"id:", SP>> \o Get(a.eventId) >> ELSE <<>>
        retryParts ==
          {<<>>} \cup
          (IF IsSome(a.retryDuration)
           THEN {<< <<"retry:", SP, ToString(Get(a.retryDuration))>> >>}
           ELSE {})
        dataPart == [k \in DOMAIN dl |-> <<"data:", SP>> \o dl[k]]
    IN \E retryPart \in retryParts :
         WireLines(sink[i]) =
           eventPart \o idPart \o retryPart \o dataPart \o <<Blank, Blank>>

\* ------------------------------------------------------------------------
\* C2
\* ------------------------------------------------------------------------

HasRetryLine(text) ==
  \E k \in DOMAIN WireLines(text) : StartsWith(WireLines(text)[k], "retry:")

\* C2: an enqueued frame contains a `retry:` line if and only if
\* retryDuration was supplied and differs from 1000.
C2_RetryLineIff ==
  \A i \in DOMAIN sink :
    HasRetryLine(sink[i]) <=>
      (IsSome(issued[i].retryDuration) /\ Get(issued[i].retryDuration) # 1000)

\* ------------------------------------------------------------------------
\* C3
\* ------------------------------------------------------------------------

\* C3: every enqueued frame ends with exactly one blank line (the text ends
\* in "\n\n" after a non-blank line) and has no blank line before it.
C3_OneBlankLineAtEnd ==
  \A i \in DOMAIN sink :
    LET ls == WireLines(sink[i])
        n == Len(ls)
    IN /\ n >= 3
       /\ ls[n] = Blank
       /\ ls[n - 1] = Blank
       /\ \A k \in 1..(n - 2) : ls[k] # Blank

\* ------------------------------------------------------------------------
\* C4
\* ------------------------------------------------------------------------

ControlNames ==
  {"mode", "selector", "onlyIfMissing", "useViewTransition", "autoRemove",
   "attributes"}

PayloadNames == {"signals", "elements", "script"}

IsControl(line) == Len(line) >= 1 /\ line[1] \in ControlNames

IsPayload(line) == Len(line) >= 1 /\ line[1] \in PayloadNames

ControlBeforePayload(dls) ==
  \A j, k \in DOMAIN dls :
    (j < k /\ IsPayload(dls[j])) => ~IsControl(dls[k])

\* C4: in every frame of either mapper no control data line (mode, selector,
\* onlyIfMissing, useViewTransition, autoRemove, attributes) comes after a
\* payload data line (signals, elements, script); a removeSignals frame has
\* only `paths` data lines.
C4_ControlLinesFirst ==
  /\ \A i \in DOMAIN sink : ControlBeforePayload(DataLinesOf(sink[i]))
  /\ \A i \in DOMAIN sse : ControlBeforePayload(Split(sse[i].data))
  /\ call.op = "removeSignals" =>
       \A i \in DOMAIN sink :
         \A k \in DOMAIN DataLinesOf(sink[i]) :
           StartsWith(DataLinesOf(sink[i])[k], "paths")

\* ------------------------------------------------------------------------
\* C5
\* ------------------------------------------------------------------------

IsSignalsLine(line) == StartsWith(line, "signals")

IsOnlyIfMissingLine(line) == StartsWith(line, "onlyIfMissing")

NoOptions(a) ==
  a.onlyIfMissing = None /\ a.eventId = None /\ a.retryDuration = None

HeartSignals == << <<"shape", <<"heart">> >> >>

HeartLine ==
  <<"signals", SP, "{", "\"", "shape", "\"", ":", "\"", "heart", "\"", "}">>

\* The data lines `lines` of a signals frame issued with arguments a.
SignalsFrameOk(lines, a) ==
  LET json == Split(JSONStringify(a.signals))
      sig == SelectSeq(lines, IsSignalsLine)
      oim == SelectSeq(lines, IsOnlyIfMissingLine)
  IN /\ sig = [k \in DOMAIN json |-> <<"signals", SP>> \o json[k]]
     /\ Len(lines) = Len(sig) + Len(oim)
     /\ Len(oim) = (IF a.onlyIfMissing = Some(TRUE) THEN 1 ELSE 0)
     /\ \A k \in DOMAIN oim : oim[k] = <<"onlyIfMissing", SP, "true">>
     /\ NoOptions(a) =>
          lines = << <<"signals", SP>> \o JSONStringify(a.signals) >>
     /\ (NoOptions(a) /\ a.signals = HeartSignals) => lines = <<HeartLine>>

\* C5: a signals frame carries one `signals `-prefixed data line per line of
\* the serialized signals, an `onlyIfMissing true` line iff onlyIfMissing is
\* true, and no other data line; with no options it is exactly the one line
\* `signals <json>` (for {"shape":"heart"}: `signals {"shape":"heart"}`).
C5_SignalsLines ==
  /\ call.op = "patchSignals" =>
       \A i \in DOMAIN sse : SignalsFrameOk(Split(sse[i].data), issued[i])
  /\ call.op = "mergeSignals" =>
       \A i \in DOMAIN sink : SignalsFrameOk(DataLinesOf(sink[i]), issued[i])

C5_Witness ==
  /\ call.op = "patchSignals"
  /\ Len(sse) >= 1
  /\ issued[1].onlyIfMissing = Some(TRUE)
  /\ Len(issued[1].signals) = 2
  /\ Len(Split(sse[1].data)) = 2

\* ------------------------------------------------------------------------
\* C6
\* ------------------------------------------------------------------------

Positions(lines, word) == {j \in DOMAIN lines : StartsWith(lines[j], word)}

ElementsFrameOk(lines, a) ==
  LET body == Split(a.elements)
      n == Len(body)
      k == Len(lines) - n
      ctrl == SubSeq(lines, 1, k)
      modeAt == Positions(ctrl, "mode")
      selAt == Positions(ctrl, "selector")
      uvtAt == Positions(ctrl, "useViewTransition")
  IN /\ k \in 0..3
     /\ SubSeq(lines, k + 1, Len(lines)) =
          [j \in 1..n |-> <<"elements", SP>> \o body[j]]
     /\ modeAt \cup selAt \cup uvtAt = 1..k
     /\ Cardinality(modeAt) <= 1
     /\ Cardinality(selAt) <= 1
     /\ Cardinality(uvtAt) <= 1
     /\ \A j \in modeAt :
          /\ IsSome(a.mode)
          /\ Get(a.mode) # "outer"
          /\ ctrl[j] = <<"mode", SP, Get(a.mode)>>
     /\ \A j \in selAt :
          /\ IsSome(a.selector)
          /\ ctrl[j] = <<"selector", SP>> \o Get(a.selector)
     /\ \A j \in uvtAt : IsSome(a.useViewTransition)
     /\ \A j1 \in modeAt, j2 \in selAt \cup uvtAt : j1 < j2
     /\ \A j1 \in selAt, j2 \in uvtAt : j1 < j2

\* C6: the data lines of a patchElements message are at most one `mode <m>`
\* line (only when mode is supplied and is not `outer`), at most one
\* `selector <s>` line (only when selector is supplied), at most one
\* `useViewTransition` line (only when supplied), in that order, followed by
\* one `elements `-prefixed line per line of content, in order; content
\* `<div>x</div>` with mode append and selector body gives exactly
\* `mode append`, `selector body`, `elements <div>x</div>`.
C6_ElementsLines ==
  call.op = "patchElements" =>
    \A i \in DOMAIN sse :
      /\ ElementsFrameOk(Split(sse[i].data), issued[i])
      /\ ( /\ issued[i].elements = <<"<div>x</div>">>
           /\ issued[i].mode = Some("append")
           /\ issued[i].selector = Some(<<"body">>)
           /\ issued[i].useViewTransition = None )
         => Split(sse[i].data) =
              << <<"mode", SP, "append">>, <<"selector", SP, "body">>,
                 <<"elements", SP, "<div>x</div>">> >>

C6_Witness ==
  /\ call.op = "patchElements"
  /\ Len(sse) >= 1
  /\ issued[1].elements = <<"a", NL, NL, "b">>
  /\ issued[1].mode = Some("append")
  /\ issued[1].selector = Some(<<"body">>)
  /\ issued[1].useViewTransition = Some(TRUE)
  /\ Len(Split(sse[1].data)) = 6

\* ------------------------------------------------------------------------
\* C7
\* ------------------------------------------------------------------------

\* `<script [attrs]>script</script>`: the explicit attributes in their given
\* order, then data-effect="el.remove()" when autoRemove is true or omitted.
ScriptMarkup(a) ==
  LET explicit == IF IsSome(a.attributes) THEN Get(a.attributes) ELSE <<>>
      attrs == IF a.autoRemove \in {None, Some(TRUE)}
               THEN explicit \o << <<"data-effect=", "\"", "el.remove()", "\"">> >>
               ELSE explicit
  IN <<"<script">>
       \o (IF attrs = <<>> THEN <<>> ELSE <<SP>> \o Join(attrs, <<SP>>))
       \o <<">">> \o a.script \o <<"</script>">>

C8_Idempotent ==
  /\ \A i \in DOMAIN sink : sink[i] = sink[1]
  /\ \A i \in DOMAIN sse : sse[i] = sse[1]
  /\ \A i \in DOMAIN issued : issued[i] = issued[1]

\* ------------------------------------------------------------------------
\* C9
\* ------------------------------------------------------------------------

\* C9: for a GET request readSignals touches only the query parameter and
\* returns the same result whatever the body is; for any other method it
\* touches only the body and returns the same result whatever the query
\* parameter is.
C9_SourceByMethod ==
  result # None =>
    LET req == call.args
        read(r) == CASE call.op = "readSignals" -> readSignals(r)
                     [] call.op = "readSignals2" -> readSignals2(r)
                     [] call.op = "honoReadSignals" -> Hono_readSignals(r)
                     [] OTHER -> Inline_readSignals(r)
    IN IF req.method = "GET"
       THEN /\ reads = {"query"}
            /\ \A b \in Bodies :
                 read([req EXCEPT !.body = b]).result = Get(result)
       ELSE /\ reads = {"body"}
            /\ \A q \in Queries :
                 read([req EXCEPT !.query = q]).result = Get(result)

C9_Witness ==
  /\ call.op = "readSignals"
  /\ result # None
  /\ call.args.method = "POST"
  /\ call.args.query = Some(Text(3, "array"))
  /\ call.args.body.text = Text(17, "object")
  /\ call.args.body.readable
  /\ Get(result).success
  /\ Get(result).signals.kind = "object"

\* ------------------------------------------------------------------------
\* C10
\* ------------------------------------------------------------------------

NoDatastarError ==
  [success |-> FALSE, error |-> "No datastar object in request"]

MissingParameter == call.args.method = "GET" /\ call.args.query = None

EmptyParameter ==
  /\ call.args.method = "GET"
  /\ IsSome(call.args.query)
  /\ Get(call.args.query).len = 0

\* C10 as stated: readSignals returns {success:false, error:"No datastar
\* object in request"} for a GET request without the datastar parameter, and
\* only then.
C10_OnlyWhenMissing ==
  result # None => (Get(result) = NoDatastarError <=> MissingParameter)

\* C10 amended: readSignals returns that error for a GET request without the
\* datastar parameter, and returns it only for a GET request whose datastar
\* parameter is missing or empty.
C10_MissingOrEmpty ==
  result # None =>
    /\ MissingParameter => Get(result) = NoDatastarError
    /\ Get(result) = NoDatastarError => (MissingParameter \/ EmptyParameter)

C10_Witness ==
  /\ call.op = "readSignals"
  /\ result # None
  /\ MissingParameter
  /\ call.args.body.text = Text(17, "object")
  /\ Get(result) = NoDatastarError

\* ------------------------------------------------------------------------
\* C11
\* ------------------------------------------------------------------------

ReadDone == result # None \/ raised

OversizedParameter ==
  /\ call.args.method = "GET"
  /\ IsSome(call.args.query)
  /\ Get(call.args.query).len > MAX_JSON_SIZE

\* C11: readSignals on a GET request whose datastar parameter is longer than
\* 1048576 returns the error "Request payload too large" and never hands
\* the parameter to JSON.parse, whatever the parameter holds.
C11_SizeBeforeParse ==
  (ReadDone /\ OversizedParameter) =>
    /\ result = Some([success |-> FALSE,
                      error |-> "Request payload too large"])
    /\ "query" \notin parsed

\* ------------------------------------------------------------------------
\* C12
\* ------------------------------------------------------------------------

\* C12: readSignals never raises: every call returns a value, and a failure
\* is the {success: false, error} variant with a string error.
C12_Total ==
  /\ ~raised
  /\ reads # {} => result # None
  /\ (result # None /\ ~Get(result).success) =>
       (DOMAIN Get(result) = {"success", "error"}
        /\ Get(result).error \in STRING)

\* ------------------------------------------------------------------------
\* Stream lifecycle (createDatastarStream)
\* ------------------------------------------------------------------------
\* pc         where start() of the underlying source is: "callback" (onStart
\*            is running or awaited), "hook" (onError is awaited), "done"
\*            (start resolved), "rejected" (start threw)
\* cb         the callback: "running", "returned" or "raised"
\* stream     the ReadableStream as its controller sees it: state,
\*            closeRequested, and the number of chunks not yet read
\* hooks      how often onError and onAbort were invoked
\* log        outcome of each call made on the HonoDatastarSSE object
\* cancelled  the transport cancelled the stream
\* sink       every chunk controller.enqueue accepted
\* issued     the intents whose call returned normally

MaxSteps == 3

\* options of createDatastarStream: keepalive, onError (absent, returns,
\* throws or rejects), onAbort (absent, returns)
StreamOptions ==
  [keepalive : BOOLEAN, onError : {"none", "returns", "throws"},
   onAbort : {"none", "returns"}]

\* An object that refers to itself: JSON.stringify throws a TypeError on it.
CyclicSignals == << <<"self">> >>

Serializable(obj) == \A i \in DOMAIN obj : Len(obj[i]) = 2

StreamIntents ==
  {[op |-> "mergeSignals",
    args |-> [signals |-> g, onlyIfMissing |-> None,
              eventId |-> None, retryDuration |-> None]] :
     g \in {<< <<"shape", <<"heart">> >> >>, CyclicSignals}}
  \cup
  {[op |-> "mergeFragments",
    args |-> [fragments |-> <<"<div>x</div>">>, selector |-> None,
              mergeMode |-> None, useViewTransition |-> None,
              eventId |-> None, retryDuration |-> None]],
   [op |-> "removeSignals",
    args |-> [paths |-> << <<"shape">> >>,
              eventId |-> None, retryDuration |-> None]]}

\* The text an intent hands to controller.enqueue.
Frame(intent) ==
  CASE intent.op = "mergeSignals" -> Hono_mergeSignals(intent.args)
    [] intent.op = "mergeFragments" -> Hono_mergeFragments(intent.args)
    [] intent.op = "removeFragments" -> Hono_removeFragments(intent.args)
    [] intent.op = "removeSignals" -> Hono_removeSignals(intent.args)
    [] OTHER -> Hono_executeScript(intent.args)

\* Variant: chunks are accepted on a stream in any state.
CanCloseOrEnqueue_anyState(s) == TRUE

\* controller.enqueue and controller.close throw a TypeError unless the
\* stream is readable and no close was requested.
CanCloseOrEnqueue(s) == s.state = "readable" /\ ~s.closeRequested

ControllerEnqueue(s) == [s EXCEPT !.queue = @ + 1]

\* The stream closes once the chunks still queued have been read.
ControllerClose(s) ==
  IF s.queue = 0
  THEN [s EXCEPT !.closeRequested = TRUE, !.state = "closed"]
  ELSE [s EXCEPT !.closeRequested = TRUE]

\* A rejected start() errors a stream that is still readable and drops the
\* chunks not yet read.
ControllerError(s) ==
  IF s.state = "readable"
  THEN [s EXCEPT !.state = "errored", !.queue = 0]
  ELSE s

StreamCancel(s) == [s EXCEPT !.state = "closed", !.queue = 0]

StreamRead(s) ==
  IF s.closeRequested /\ s.queue = 1
  THEN [s EXCEPT !.queue = 0, !.state = "closed"]
  ELSE [s EXCEPT !.queue = @ - 1]

\* Variant: the event line is enqueued before the payload is serialized.
Invoke_eventLineFirst(intent, s) ==
  IF intent.op = "mergeSignals" /\ ~Serializable(intent.args.signals)
  THEN [outcome |-> "encodingError",
        chunks |-> << <<"event: ", MERGE_SIGNALS, NL>> >>]
  ELSE IF ~CanCloseOrEnqueue(s)
  THEN [outcome |-> "writeError", chunks |-> <<>>]
  ELSE [outcome |-> "ok", chunks |-> <<Frame(intent)>>]

\* One call on the HonoDatastarSSE object: JSON.stringify runs before
\* sendEvent, and sendEvent builds the whole message before its one
\* controller.enqueue.
Invoke(intent, s) ==
  IF intent.op = "mergeSignals" /\ ~Serializable(intent.args.signals)
  THEN [outcome |-> "encodingError", chunks |-> <<>>]
  ELSE IF ~CanCloseOrEnqueue(s)
  THEN [outcome |-> "writeError", chunks |-> <<>>]
  ELSE [outcome |-> "ok", chunks |-> <<Frame(intent)>>]

\* Variant: new chunks go in front of the ones already there.
Enqueued_inFront(chunks, new) == new \o chunks

Enqueued(chunks, new) == chunks \o new

ShouldClose(o) == ~o.keepalive

\* sse.close() at the end of the catch block; when it throws, start()
\* rejects.
FinalClose(s, h) ==
  IF CanCloseOrEnqueue(s)
  THEN [pc |-> "done", stream |-> ControllerClose(s), hooks |-> h]
  ELSE [pc |-> "rejected", stream |-> ControllerError(s), hooks |-> h]

\* The catch block up to its first await.
Caught(s, h, o) ==
  IF o.onError = "none" THEN FinalClose(s, h)
  ELSE [pc |-> "hook", stream |-> s,
        hooks |-> [h EXCEPT !.onError = @ + 1]]

InitStream ==
  /\ call \in {[op |-> "createDatastarStream", args |-> o] :
                 o \in StreamOptions}
  /\ issued = <<>>
  /\ sink = <<>>
  /\ sse = <<>>
  /\ result = None
  /\ reads = {}
  /\ parsed = {}
  /\ raised = FALSE
  /\ pc = "callback"
  /\ cb = "running"
  /\ stream = [state |-> "readable", closeRequested |-> FALSE, queue |-> 0]
  /\ hooks = [onError |-> 0, onAbort |-> 0]
  /\ log = <<>>
  /\ cancelled = FALSE
  /\ NoRoute

\* The callback holds the object while it runs; with keepalive the code it
\* handed the object to goes on using it.
HoldsSse == cb = "running" \/ call.args.keepalive

CanStep == HoldsSse /\ Len(log) < MaxSteps

Issue ==
  \E intent \in StreamIntents :
    LET r == Invoke(intent, stream) IN
    /\ CanStep
    /\ sink' = Enqueued(sink, r.chunks)
    /\ stream' = IF r.outcome = "ok" THEN ControllerEnqueue(stream)
                 ELSE stream
    /\ issued' = IF r.outcome = "ok" THEN Append(issued, intent)
                 ELSE issued
    /\ log' = Append(log, r.outcome)
    /\ UNCHANGED <<call, sse, readVars, routeVars, pc, cb, hooks, cancelled>>

\* sse.close() called by the callback
Close ==
  /\ CanStep
  /\ stream' = IF CanCloseOrEnqueue(stream) THEN ControllerClose(stream)
               ELSE stream
  /\ log' = Append(log, IF CanCloseOrEnqueue(stream) THEN "closed"
                        ELSE "closeError")
  /\ UNCHANGED <<call, issued, sink, sse, readVars, routeVars, pc, cb, hooks,
                 cancelled>>

\* onStart returned, or the promise it returned resolved; the close of the
\* try block runs in the same turn, and a throw from it lands in the catch.
CallbackReturn ==
  /\ pc = "callback"
  /\ cb' = "returned"
  /\ LET next ==
           IF ~ShouldClose(call.args)
           THEN [pc |-> "done", stream |-> stream, hooks |-> hooks]
           ELSE IF CanCloseOrEnqueue(stream)
           THEN [pc |-> "done", stream |-> ControllerClose(stream),
                 hooks |-> hooks]
           ELSE Caught(stream, hooks, call.args)
     IN /\ pc' = next.pc
        /\ stream' = next.stream
        /\ hooks' = next.hooks
  /\ UNCHANGED <<call, issued, sink, sse, readVars, routeVars, log,
                 cancelled>>

\* onStart threw, or the promise it returned rejected.
CallbackThrow ==
  /\ pc = "callback"
  /\ cb' = "raised"
  /\ LET next == Caught(stream, hooks, call.args)
     IN /\ pc' = next.pc
        /\ stream' = next.stream
        /\ hooks' = next.hooks
  /\ UNCHANGED <<call, issued, sink, sse, readVars, routeVars, log,
                 cancelled>>

\* `await options.onError(error)` settles.
HookSettles ==
  /\ pc = "hook"
  /\ LET next ==
           IF call.args.onError = "returns" THEN FinalClose(stream, hooks)
           ELSE [pc |-> "rejected", stream |-> ControllerError(stream),
                 hooks |-> hooks]
     IN /\ pc' = next.pc
        /\ stream' = next.stream
        /\ hooks' = next.hooks
  /\ UNCHANGED <<call, issued, sink, sse, readVars, routeVars, cb, log,
                 cancelled>>

\* The client went away: the stream is closed, its queue dropped, and the
\* cancel callback of the underlying source runs.
Cancel ==
  /\ stream.state = "readable"
  /\ stream' = StreamCancel(stream)
  /\ cancelled' = TRUE
  /\ hooks' = IF call.args.onAbort = "none" THEN hooks
              ELSE [hooks EXCEPT !.onAbort = @ + 1]
  /\ UNCHANGED <<call, issued, sink, sse, readVars, routeVars, pc, cb, log>>

\* The response body reads one chunk.
Consume ==
  /\ stream.state = "readable"
  /\ stream.queue > 0
  /\ stream' = StreamRead(stream)
  /\ UNCHANGED <<call, issued, sink, sse, readVars, routeVars, pc, cb,
                 hooks, log, cancelled>>

NextStream ==
  \/ Issue
  \/ Close
  \/ CallbackReturn
  \/ CallbackThrow
  \/ HookSettles
  \/ Cancel
  \/ Consume

SpecStream == InitStream /\ [][NextStream]_vars

\* ------------------------------------------------------------------------
\* C13
\* ------------------------------------------------------------------------

\* The sink is closing (close requested, queued frames still being read) or
\* closed.
Closed(s) ==
  \/ s.state = "closed"
  \/ s.state = "readable" /\ s.closeRequested

FramesOf(intents) == [i \in DOMAIN intents |-> Frame(intents[i])]

\* C13: once the callback has completed normally, every frame it issued is
\* on the sink, and the sink is closed unless keepalive is set; with
\* keepalive the wrapper leaves the sink as it was (open, unless the code
\* holding it closed it or the transport cancelled it).
C13_ClosedAfterReturn ==
  cb = "returned" =>
    /\ sink = FramesOf(issued)
    /\ IF call.args.keepalive
       THEN CanCloseOrEnqueue(stream) \/ cancelled
            \/ \E i \in DOMAIN log : log[i] = "closed"
       ELSE Closed(stream)

\* ------------------------------------------------------------------------
\* C14
\* ------------------------------------------------------------------------

StartSettled == pc \in {"done", "rejected"}

\* C14: when the callback raised, the sink ends closed once the wrapper is
\* through, with or without an error hook, whatever the hook does, and
\* whatever keepalive says.
C14_ClosedAfterRaise ==
  (cb = "raised" /\ StartSettled) => Closed(stream)

\* ------------------------------------------------------------------------
\* C15
\* ------------------------------------------------------------------------

\* C15: a cancellation of the open stream closes it in that step and
\* invokes the abort hook if there is one; from then on the stream stays
\* closed, the sink never grows, and no call on the stream succeeds.
C15_NothingAfterCancel ==
  [][/\ (~cancelled /\ cancelled') =>
          /\ stream.state = "readable"
          /\ stream'.state = "closed"
          /\ hooks'.onAbort =
               IF call.args.onAbort = "none" THEN 0 ELSE 1
     /\ cancelled =>
          /\ sink' = sink
          /\ issued' = issued
          /\ stream'.state = "closed"
          /\ stream'.queue = 0
          /\ hooks'.onAbort = hooks.onAbort
          /\ \A i \in DOMAIN log' \ DOMAIN log :
               log'[i] \in {"encodingError", "writeError", "closeError"}
    ]_vars

C15_Witness ==
  /\ cancelled
  /\ hooks.onAbort = 1
  /\ ~stream.closeRequested
  /\ Len(sink) = 1
  /\ Len(log) = 2
  /\ log[1] = "ok"
  /\ log[2] = "writeError"
  /\ cb = "running"

\* ------------------------------------------------------------------------
\* C16
\* ------------------------------------------------------------------------

\* C16: the sink holds one chunk per intent issued, in issue order, and the
\* i-th chunk is exactly the frame of the i-th intent.
C16_FramesInIssueOrder ==
  /\ Len(sink) = Len(issued)
  /\ \A i \in DOMAIN sink : sink[i] = Frame(issued[i])

C16_Witness ==
  /\ Len(sink) = 3
  /\ issued[1].op = "removeSignals"
  /\ issued[2].op = "mergeSignals"
  /\ issued[3].op = "mergeFragments"
  /\ sink[2] = Hono_mergeSignals(issued[2].args)

\* ------------------------------------------------------------------------
\* C17
\* ------------------------------------------------------------------------

\* C17: a call that fails with an encoding error leaves the sink and the
\* stream exactly as they were, and a call made on an open stream after
\* such a failure appends its whole frame.
C17_EncodingErrorLeavesStreamOpen ==
  [][\A i \in DOMAIN log' \ DOMAIN log :
       /\ log'[i] = "encodingError" =>
            (sink' = sink /\ stream' = stream /\ issued' = issued)
       /\ (log'[i] \notin {"encodingError", "closed", "closeError"}
           /\ CanCloseOrEnqueue(stream)) =>
            /\ log'[i] = "ok"
            /\ Len(sink') = Len(sink) + 1
            /\ sink'[Len(sink')] = Frame(issued'[Len(issued')])
    ]_vars

C17_Witness ==
  /\ Len(log) = 2
  /\ log[1] = "encodingError"
  /\ log[2] = "ok"
  /\ Len(sink) = 1
  /\ sink[1] = Frame(issued[1])
  /\ cb = "running"
  /\ stream.state = "readable"

\* ------------------------------------------------------------------------
\* C18
\* ------------------------------------------------------------------------

\* C18: the error hook runs only when the callback itself raised.
C18_HookOnlyAfterRaise ==
  hooks.onError > 0 => cb = "raised"

\* ------------------------------------------------------------------------
\* C19
\* ------------------------------------------------------------------------

HonoOps ==
  {"mergeSignals", "mergeFragments", "removeFragments", "removeSignals",
   "honoExecuteScript"}

StreamingApiOps == {"patchSignals", "patchElements", "executeScript"}

\* C19: at every point the number of frames written equals the number of
\* intent operations that have completed: each operation, executeScript
\* included, appends exactly one frame to the sink of its stream.
C19_OneFramePerIntent ==
  /\ call.op \in HonoOps => (Len(sink) = Len(issued) /\ sse = <<>>)
  /\ call.op \in StreamingApiOps => (Len(sse) = Len(issued) /\ sink = <<>>)
  /\ Len(sink) + Len(sse) = Len(issued)

C19_Witness ==
  /\ call.op = "executeScript"
  /\ Len(issued) = 2
  /\ Len(sse) = 2
  /\ sse[2].event = EVENT_PATCH_ELEMENTS

\* ------------------------------------------------------------------------
\* The /shape route
\* ------------------------------------------------------------------------
\* lastShapeIndex  the module-level variable of index.tsx
\* route           per request: where its handler is, the nextShape it
\*                 holds, and the messages its stream callback has sent
\* picks           the requests in the order they picked a shape

MaxRequests == 5

MaxInFlight == 3

SHAPES == <<"note", "heart", "circle", "diamond">>

\* shapeCharacter.get(shape): the texts stand for the four characters
shapeCharacter(shape) ==
  CASE shape = "note" -> "(eighth note)"
    [] shape = "heart" -> "(heart suit)"
    [] shape = "circle" -> "(white circle)"
    [] shape = "diamond" -> "(black diamond)"

\* String(<Shape shape={shape} />)
ShapeElement(shape) ==
  <<"<div id=", "\"", "shape", "\"", " style=", "\"",
    "color:red;font-size:32px;margin-bottom:16px", "\"", ">",
    shapeCharacter(shape), "</div>">>

\* Variant: the index stops at the last shape.
NextShapeIndex_noWrap(i) == IF i + 1 < Len(SHAPES) THEN i + 1 ELSE i

\* (lastShapeIndex + 1) % SHAPES.length; the left operand is never negative.
NextShapeIndex(i) == (i + 1) % Len(SHAPES)

\* SHAPES[index], undefined outside the array
ShapeAt(index) ==
  IF index + 1 \in DOMAIN SHAPES THEN Some(SHAPES[index + 1]) ELSE None

ShapeSignals(shape) ==
  [signals |-> << <<"shape", <<shape>> >> >>, onlyIfMissing |-> None,
   eventId |-> None, retryDuration |-> None]

ShapeElements(shape) ==
  [elements |-> ShapeElement(shape), mode |-> None, selector |-> None,
   useViewTransition |-> Some(TRUE),
   eventId |-> None, retryDuration |-> None]

ShapeScript(shape) ==
  [script |-> <<"console.log(", "\"", "The shape is ", shape, "\"", ")">>,
   attributes |-> None, autoRemove |-> None,
   eventId |-> None, retryDuration |-> None]

RequestIds == 1..MaxRequests

NewRequest == [pc |-> "none", nextShape |-> None, out |-> <<>>]

InitShape ==
  /\ call = [op |-> "GET /shape", args |-> <<>>]
  /\ issued = <<>>
  /\ sink = <<>>
  /\ sse = <<>>
  /\ result = None
  /\ reads = {}
  /\ parsed = {}
  /\ raised = FALSE
  /\ NoStream
  /\ lastShapeIndex = -1
  /\ route = [r \in RequestIds |-> NewRequest]
  /\ picks = <<>>

\* The requests whose handler or stream callback has not finished.
InFlight == {r \in RequestIds : route[r].pc \notin {"none", "done", "failed"}}

\* A request reaches the handler, which suspends in `await readSignals(c)`.
\* Requests are numbered in the order they arrive.
Arrive(r) ==
  /\ route[r].pc = "none"
  /\ Cardinality(InFlight) < MaxInFlight
  /\ IF r = 1 THEN TRUE ELSE route[r - 1].pc # "none"
  /\ route' = [route EXCEPT ![r].pc = "reading"]
  /\ UNCHANGED <<call, issued, sink, sse, readVars, lifeVars,
                 lastShapeIndex, picks>>

\* readSignals has settled: the handler rotates the index, takes nextShape
\* and starts the stream, all in one turn. An undefined nextShape throws.
Pick(r) ==
  /\ route[r].pc = "reading"
  /\ lastShapeIndex' = NextShapeIndex(lastShapeIndex)
  /\ LET nextShape == ShapeAt(lastShapeIndex')
     IN route' = [route EXCEPT
                    ![r].pc = IF IsSome(nextShape) THEN "signals"
                              ELSE "failed",
                    ![r].nextShape = nextShape]
  /\ picks' = Append(picks, r)
  /\ UNCHANGED <<call, issued, sink, sse, readVars, lifeVars>>

\* One message of the stream callback; it then suspends (Bun.sleep or the
\* end of the callback).
Send(r, at, message, then) ==
  /\ route[r].pc = at
  /\ route' = [route EXCEPT ![r].pc = then,
                            ![r].out = Append(@, message)]
  /\ UNCHANGED <<call, issued, sink, sse, readVars, lifeVars,
                 lastShapeIndex, picks>>

SendSignals(r) ==
  Send(r, "signals",
       patchSignals(ShapeSignals(Get(route[r].nextShape))), "elements")

SendElements(r) ==
  Send(r, "elements",
       patchElements(ShapeElements(Get(route[r].nextShape))), "script")

SendScript(r) ==
  Send(r, "script",
       executeScript(ShapeScript(Get(route[r].nextShape))), "done")

NextShape ==
  \E r \in RequestIds :
    \/ Arrive(r)
    \/ Pick(r)
    \/ SendSignals(r)
    \/ SendElements(r)
    \/ SendScript(r)

SpecShape == InitShape /\ [][NextShape]_vars

\* ------------------------------------------------------------------------
\* C20
\* ------------------------------------------------------------------------

Contains(text, atom) == \E i \in DOMAIN text : text[i] = atom

\* The shape a message of the response carries, by the kind of message: the
\* value of the shape signal, the character inside the element, the word in
\* the logged sentence.
CarriesShape(message, shape) ==
  IF message.event = EVENT_PATCH_SIGNALS
  THEN message.data =
         <<"signals", SP, "{", "\"", "shape", "\"", ":",
           "\"", shape, "\"", "}">>
  ELSE IF Contains(message.data, "<script")
  THEN /\ Contains(message.data, shape)
       /\ \A other \in {SHAPES[i] : i \in DOMAIN SHAPES} \ {shape} :
            ~Contains(message.data, other)
  ELSE /\ Contains(message.data, shapeCharacter(shape))
       /\ \A other \in {SHAPES[i] : i \in DOMAIN SHAPES} \ {shape} :
            ~Contains(message.data, shapeCharacter(other))

\* C20: under every interleaving of /shape requests, lastShapeIndex is in
\* 0..SHAPES.length-1 once a request has picked, the n-th request to pick
\* holds SHAPES[(n-1) mod SHAPES.length], and every message of a response
\* (signals, elements, script, in that order) carries the shape its request
\* picked.
C20_ShapeRotation ==
  /\ picks # <<>> => lastShapeIndex \in 0..(Len(SHAPES) - 1)
  /\ picks = <<>> => lastShapeIndex = -1
  /\ \A n \in DOMAIN picks :
       route[picks[n]].nextShape = Some(SHAPES[((n - 1) % Len(SHAPES)) + 1])
  /\ \A r \in RequestIds :
       /\ Len(route[r].out) <= 3
       /\ route[r].pc = "done" => Len(route[r].out) = 3
       /\ \A k \in DOMAIN route[r].out :
            /\ CarriesShape(route[r].out[k], Get(route[r].nextShape))
            /\ route[r].out[k].event =
                 IF k = 1 THEN EVENT_PATCH_SIGNALS ELSE EVENT_PATCH_ELEMENTS

\* The fifth request to pick overtook the fourth and got the first shape
\* again, while the first response was still between two messages.
C20_Witness ==
  /\ Len(picks) = 5
  /\ picks[4] = 5
  /\ picks[5] = 4
  /\ route[4].nextShape = Some("note")
  /\ route[5].nextShape = Some("diamond")
  /\ route[1].pc = "elements"
  /\ route[4].pc = "done"
  /\ lastShapeIndex = 0

====
